---- MODULE Spec2Model ----
(***************************************************************************)
(* Model of src/extract_highlight.py: the highlight-detection script.      *)
(*                                                                         *)
(* One run of the script is one behaviour.  pc is the position in the      *)
(* top-level code; every other variable is the Python global of the same   *)
(* name.  Times are kept exact by measuring them in ticks of 1/sr second   *)
(* (one tick = one sample): a frame index f is f * 512 ticks, the track    *)
(* lasts len(y) ticks and n seconds are n * sr ticks.  Floats that are     *)
(* quotients (mean_energy, energy_ratio) are records [num, den].           *)
(*                                                                         *)
(* librosa is outside the repository.  A loaded waveform y is represented  *)
(* by what the script reads of it: its number of samples and the onset     *)
(* strength curve librosa derives from it (one frame per 512 samples,      *)
(* centred framing, values >= 0).                                          *)
(***************************************************************************)
EXTENDS Integers, Sequences, FiniteSets

\* ---------------------------------------------------------------- bounds

\* Longest waveform, in half hops (256 samples).
MaxHalfHops == 11
\* Largest onset-strength value of a frame.
MaxOnset == 1

\* ------------------------------------------------------- program constants

\* librosa's default hop: the 512 of `int(5 * sr / 512)`.
hop_length == 512
\* The 5 of `int(5 * sr / 512)`: the analysis window, in seconds.
WINDOW_SECONDS == 5
\* The 20 of `duration - 20` and `min(20.0, ...)`: the highlight, in seconds.
HIGHLIGHT_SECONDS == 20

\* len(sys.argv): the program name alone, with one path, with an extra argument.
ArgCounts == {1, 2, 3}
\* Sample rates librosa.load may return. 50 gives a window of 0 frames,
\* 103 and 154 of 1, 205 of 2, 308 of 3; 5 * 154 / 512 = 1.504 rounds up.
SampleRates == {50, 103, 154, 205, 308}

\* The value of a Python name that is not bound yet.
Unset == -1

\* -------------------------------------------------------------- helpers

Max(a, b) == IF a >= b THEN a ELSE b
Min(a, b) == IF a <= b THEN a ELSE b

RECURSIVE SumSeq(_)
SumSeq(s) == IF s = <<>> THEN 0 ELSE Head(s) + SumSeq(Tail(s))

\* np.ones(n)
Ones(n) == [i \in 1..n |-> 1]

\* Frames of the onset curve of a waveform of `samples` samples.
NumFrames(samples) == 1 + samples \div hop_length

\* The waveforms: sample count and onset curve. No samples, no onsets.
Waveforms ==
  UNION { { [len |-> k * (hop_length \div 2), onset |-> c] :
              c \in { f \in [1..NumFrames(k * (hop_length \div 2)) -> 0..MaxOnset] :
                        k = 0 => \A i \in DOMAIN f : f[i] = 0 } } :
          k \in 0..MaxHalfHops }

\* What beat_track may return: tempo as a plain float or as a size-1 array.
RawTempos == { [kind |-> "scalar", val |-> 0], [kind |-> "ndarray", val |-> 120] }
BeatFrames == { <<>>, <<1>> }

\* ------------------------------------------------------ the script's steps

\* The check with its limit off by one.
ArgMissingOffByOne(n) == n < 1
\* len(sys.argv) < 2
ArgMissing(n) == n < 2

\* float(tempo.item() if isinstance(tempo, np.ndarray) else tempo)
CoerceTempo(t) == IF t.kind = "ndarray" THEN t.val ELSE t.val

\* librosa.frames_to_time(frames, sr=sr), in ticks: frames * hop_length / sr seconds.
FramesToTime(frames) == frames * hop_length

\* n seconds, in ticks of 1/rate second.
Seconds(n, rate) == n * rate

\* The window rounded to the nearest frame instead.
WindowSizeRounded(rate) == (2 * WINDOW_SECONDS * rate + hop_length) \div (2 * hop_length)
\* int(5 * sr / 512): int() truncates.
WindowSize(rate) == (WINDOW_SECONDS * rate) \div hop_length

\* np.convolve(a, v, 'valid') raises ValueError on an empty operand.
ConvolveRaises(a, v) == Len(a) = 0 \/ Len(v) = 0

\* np.convolve(a, v, 'valid'): numpy swaps the operands when v is the longer,
\* then yields the max(M, N) - min(M, N) + 1 full overlaps.
ConvolveValid(a, v) ==
  LET long  == IF Len(v) > Len(a) THEN v ELSE a
      short == IF Len(v) > Len(a) THEN a ELSE v
      M     == Len(short)
  IN  [k \in 1..(Len(long) - M + 1) |->
         SumSeq([j \in 1..M |-> long[k + j - 1] * short[M - j + 1]])]

\* np.argmax: 0-based index of the first occurrence of the maximum.
RECURSIVE ArgMaxFrom(_, _, _)
ArgMaxFrom(s, i, best) ==
  IF i > Len(s) THEN best - 1
  ELSE ArgMaxFrom(s, i + 1, IF s[i] > s[best] THEN i ELSE best)

\* The scan keeping the last occurrence instead.
RECURSIVE ArgMaxLastFrom(_, _, _)
ArgMaxLastFrom(s, i, best) ==
  IF i > Len(s) THEN best - 1
  ELSE ArgMaxLastFrom(s, i + 1, IF s[i] >= s[best] THEN i ELSE best)

ArgMaxLast(s) == ArgMaxLastFrom(s, 1, 1)
\* np.argmax(onset_sum)
ArgMax(s) == ArgMaxFrom(s, 1, 1)

\* np.mean
Mean(s) == [num |-> SumSeq(s), den |-> Len(s)]

\* A division that yields nan or inf without raising, as numpy scalars do.
NeverRaises(q) == FALSE
\* Python float division raises ZeroDivisionError on a zero divisor.
DivisionRaises(q) == q.num = 0

\* x / q
Divide(x, q) == [num |-> x * q.den, den |-> q.num]

\* The clamp without its max(0, ...).
ClampStartNoFloor(start, dur, limit) == IF start > dur - limit THEN dur - limit ELSE start
\* if start_time > duration - 20: start_time = max(0, duration - 20)
ClampStart(start, dur, limit) == IF start > dur - limit THEN Max(0, dur - limit) ELSE start

\* A highlight of 20 seconds whatever is left of the track.
HighlightDurationNoCap(start, dur, limit) == limit
\* min(20.0, duration - start_time)
HighlightDuration(start, dur, limit) == Min(limit, dur - start)

\* The two shapes printed to standard output.
ErrorResult(msg) == [error |-> msg]
HighlightResult(start, dur, ratio) ==
  [start |-> start, duration |-> dur, confidence |-> ratio, energy_ratio |-> ratio]

\* ---------------------------------------------------------------- state

VARIABLES
  pc,                 \* position in the script
  argc,               \* len(sys.argv)
  log_open,           \* debug_log is open
  stdout,             \* the objects printed, in order
  exit_code,          \* the process's exit code, Unset while running
  exc,                \* the step that raised the exception being handled
  y, sr, duration,
  tempo, beats, beat_times,
  onset_env, window_size, onset_sum, peak_idx, start_time,
  peak_energy, mean_energy, energy_ratio,
  highlight_duration

io == <<argc, log_open, stdout, exit_code, exc>>
loaded == <<y, sr, duration>>
rhythm == <<tempo, beats, beat_times>>
selection == <<onset_env, window_size, onset_sum, peak_idx, start_time>>
energy == <<peak_energy, mean_energy, energy_ratio>>
vars == <<pc, io, loaded, rhythm, selection, energy, highlight_duration>>

\* The state once debug_log is open and the definitions are made (line 25).
Init ==
  /\ pc = "main"
  /\ argc \in ArgCounts
  /\ log_open = TRUE
  /\ stdout = <<>>
  /\ exit_code = Unset
  /\ exc = "none"
  /\ y = [len |-> 0, onset |-> <<>>]
  /\ sr = Unset
  /\ duration = Unset
  /\ tempo = Unset
  /\ beats = <<>>
  /\ beat_times = <<>>
  /\ onset_env = <<>>
  /\ window_size = Unset
  /\ onset_sum = <<>>
  /\ peak_idx = Unset
  /\ start_time = Unset
  /\ peak_energy = Unset
  /\ mean_energy = [num |-> 0, den |-> 0]
  /\ energy_ratio = [num |-> 0, den |-> 0]
  /\ highlight_duration = Unset

\* A step of the try block raises: control goes to the except clause.
Raise(step) ==
  /\ pc' = "except"
  /\ exc' = step
  /\ UNCHANGED <<argc, stdout, exit_code>>

\* Lines 26-30: the argument check. sys.exit(1) leaves debug_log as it is.
ArgCheck ==
  /\ pc = "main"
  /\ IF ArgMissing(argc)
       THEN /\ stdout' = Append(stdout, ErrorResult("No audio file provided"))
            /\ exit_code' = 1
            /\ pc' = "done"
       ELSE /\ pc' = "load"
            /\ UNCHANGED <<stdout, exit_code>>
  /\ UNCHANGED <<argc, log_open, exc, loaded, rhythm, selection, energy, highlight_duration>>

\* Line 36: librosa.load returns a waveform and its sample rate.
Load ==
  /\ pc = "load"
  /\ \E w \in Waveforms, rate \in SampleRates :
       /\ y' = w
       /\ sr' = rate
  /\ pc' = "duration"
  /\ UNCHANGED <<io, duration, rhythm, selection, energy, highlight_duration>>

\* Line 36: librosa.load raises (no such file, unsupported codec).
LoadRaises ==
  /\ pc = "load"
  /\ Raise("load")
  /\ UNCHANGED <<log_open, loaded, rhythm, selection, energy, highlight_duration>>

\* Lines 39-40: duration = len(y) / sr seconds.
GetDuration ==
  /\ pc = "duration"
  /\ duration' = y.len
  /\ pc' = "rhythm"
  /\ UNCHANGED <<io, y, sr, rhythm, selection, energy, highlight_duration>>

\* Lines 43-48: beat tracking; tempo and beats are only logged.
BeatTrack ==
  /\ pc = "rhythm"
  /\ \E t \in RawTempos, b \in BeatFrames :
       /\ tempo' = CoerceTempo(t)
       /\ beats' = b
       /\ beat_times' = [i \in DOMAIN b |-> FramesToTime(b[i])]
  /\ pc' = "onset"
  /\ UNCHANGED <<io, loaded, selection, energy, highlight_duration>>

\* Line 43: librosa.beat.beat_track raises.
BeatTrackRaises ==
  /\ pc = "rhythm"
  /\ Raise("rhythm")
  /\ UNCHANGED <<log_open, loaded, rhythm, selection, energy, highlight_duration>>

\* Line 51: the onset strength curve of y.
OnsetStrength ==
  /\ pc = "onset"
  /\ onset_env' = y.onset
  /\ pc' = "select"
  /\ UNCHANGED <<io, loaded, rhythm, window_size, onset_sum, peak_idx, start_time,
                 energy, highlight_duration>>

\* Line 51: librosa.onset.onset_strength raises.
OnsetStrengthRaises ==
  /\ pc = "onset"
  /\ Raise("onset")
  /\ UNCHANGED <<log_open, loaded, rhythm, selection, energy, highlight_duration>>

\* Lines 54-59: the window, the windowed sums, the peak and its time.
SelectWindow ==
  /\ pc = "select"
  /\ window_size' = WindowSize(sr)
  /\ IF ConvolveRaises(onset_env, Ones(window_size'))
       THEN /\ Raise("select")
            /\ UNCHANGED <<onset_sum, peak_idx, start_time>>
       ELSE /\ onset_sum' = ConvolveValid(onset_env, Ones(window_size'))
            /\ peak_idx' = ArgMax(onset_sum')
            /\ start_time' = FramesToTime(peak_idx')
            /\ pc' = "energy"
            /\ UNCHANGED io
  /\ UNCHANGED <<log_open, loaded, rhythm, onset_env, energy, highlight_duration>>

\* Lines 62-65: peak over mean.
EnergyRatio ==
  /\ pc = "energy"
  /\ peak_energy' = onset_sum[peak_idx + 1]
  /\ mean_energy' = Mean(onset_sum)
  /\ IF DivisionRaises(mean_energy')
       THEN /\ Raise("energy")
            /\ UNCHANGED energy_ratio
       ELSE /\ energy_ratio' = Divide(peak_energy', mean_energy')
            /\ pc' = "boundary"
            /\ UNCHANGED io
  /\ UNCHANGED <<log_open, loaded, rhythm, selection, highlight_duration>>

\* A variant that starts the highlight on the last beat at or before the peak.
BoundaryPolicySnapToBeat ==
  /\ pc = "boundary"
  /\ LET before  == { beat_times[i] : i \in { j \in DOMAIN beat_times :
                                                beat_times[j] <= start_time } }
         snapped == IF before = {} THEN start_time
                    ELSE CHOOSE t \in before : \A u \in before : u <= t
     IN  /\ start_time' = ClampStart(snapped, duration, Seconds(HIGHLIGHT_SECONDS, sr))
         /\ highlight_duration' =
              HighlightDuration(start_time', duration, Seconds(HIGHLIGHT_SECONDS, sr))
  /\ pc' = "print"
  /\ UNCHANGED <<io, loaded, rhythm, onset_env, window_size, onset_sum, peak_idx, energy>>

\* Lines 68-73: keep the highlight inside the track.
BoundaryPolicy ==
  /\ pc = "boundary"
  /\ start_time' = ClampStart(start_time, duration, Seconds(HIGHLIGHT_SECONDS, sr))
  /\ highlight_duration' =
       HighlightDuration(start_time', duration, Seconds(HIGHLIGHT_SECONDS, sr))
  /\ pc' = "print"
  /\ UNCHANGED <<io, loaded, rhythm, onset_env, window_size, onset_sum, peak_idx, energy>>

\* Lines 75-81: the result is assembled and printed.
PrintResult ==
  /\ pc = "print"
  /\ stdout' = Append(stdout, HighlightResult(start_time, highlight_duration, energy_ratio))
  /\ pc' = "close"
  /\ UNCHANGED <<argc, log_open, exit_code, exc, loaded, rhythm, selection, energy,
                 highlight_duration>>

\* Line 82: debug_log.close() returns; the script ends, exit code 0.
CloseLog ==
  /\ pc = "close"
  /\ log_open' = FALSE
  /\ exit_code' = 0
  /\ pc' = "done"
  /\ UNCHANGED <<argc, stdout, exc, loaded, rhythm, selection, energy, highlight_duration>>

\* Line 82: debug_log.close() raises OSError; the file object is closed all the same.
CloseLogRaises ==
  /\ pc = "close"
  /\ log_open' = FALSE
  /\ Raise("close")
  /\ UNCHANGED <<loaded, rhythm, selection, energy, highlight_duration>>

\* Lines 83-88: the error is printed, the log closed, exit code 1
\* (also when the close of line 87 raises: an uncaught exception exits with 1).
ExceptHandler ==
  /\ pc = "except"
  /\ stdout' = Append(stdout, ErrorResult(exc))
  /\ log_open' = FALSE
  /\ exit_code' = 1
  /\ pc' = "done"
  /\ UNCHANGED <<argc, exc, loaded, rhythm, selection, energy, highlight_duration>>

Next ==
  \/ ArgCheck
  \/ Load
  \/ LoadRaises
  \/ GetDuration
  \/ BeatTrack
  \/ BeatTrackRaises
  \/ OnsetStrength
  \/ OnsetStrengthRaises
  \/ SelectWindow
  \/ EnergyRatio
  \/ BoundaryPolicy
  \/ PrintResult
  \/ CloseLog
  \/ CloseLogRaises
  \/ ExceptHandler

Spec == Init /\ [][Next]_vars

\* ---------------------------------------------------------------- claims

IsHighlight(o) == DOMAIN o = {"start", "duration", "confidence", "energy_ratio"}
IsError(o) == DOMAIN o = {"error"}
NoHighlightPrinted == \A i \in DOMAIN stdout : ~IsHighlight(stdout[i])
Limit == HIGHLIGHT_SECONDS * sr

\* C1: a run given an audio path ends with exactly one object on standard
\* output, a Highlight Result with exit code 0 or an Error Result with exit
\* code 1, and a run in which a step of the try block raised has printed no
\* Highlight Result.
C1_ExactlyOneResult ==
  (pc = "done" /\ argc >= 2) =>
    /\ Len(stdout) = 1
    /\ \/ IsHighlight(stdout[1]) /\ exit_code = 0
       \/ IsError(stdout[1]) /\ exit_code = 1
    /\ exc # "none" => (IsError(stdout[1]) /\ exit_code = 1)

\* C2: every Highlight Result printed has 0 <= start, duration > 0 and
\* start + duration <= track duration.
C2_HighlightWithinTrack ==
  \A i \in DOMAIN stdout :
    IsHighlight(stdout[i]) =>
      /\ 0 <= stdout[i].start
      /\ stdout[i].duration > 0
      /\ stdout[i].start + stdout[i].duration <= duration

\* A track shorter than 20 seconds whose peak is not its first window has
\* been clamped to start 0 and printed.
C2_Witness ==
  /\ pc = "done"
  /\ exit_code = 0
  /\ duration < Limit
  /\ peak_idx > 0
  /\ stdout[1].start = 0
  /\ stdout[1].duration = duration

\* C3: when the onset curve has fewer frames than window_size, selection
\* cannot proceed: the run ends with an error, exit code 1 and no Highlight
\* Result.
C3_ShortCurveFails ==
  (pc = "done" /\ window_size # Unset /\ Len(onset_env) < window_size) =>
    /\ NoHighlightPrinted
    /\ exit_code = 1

\* C4: when the window energy curve is all zeros the run ends with one error
\* object and exit code 1, and no printed Highlight Result carries a ratio
\* with a zero divisor (a NaN or an infinity).
C4_SilenceFails ==
  /\ (pc = "done" /\ onset_sum # <<>> /\ \A i \in DOMAIN onset_sum : onset_sum[i] = 0) =>
       /\ Len(stdout) = 1
       /\ IsError(stdout[1])
       /\ exit_code = 1
  /\ \A i \in DOMAIN stdout :
       IsHighlight(stdout[i]) =>
         /\ stdout[i].energy_ratio.den # 0
         /\ stdout[i].confidence.den # 0

\* A silent track at least one window long has ended on the division.
C4_Witness ==
  /\ pc = "done"
  /\ exc = "energy"
  /\ duration > 0
  /\ Len(onset_env) >= window_size
  /\ Len(onset_sum) >= 2
  /\ \A i \in DOMAIN onset_sum : onset_sum[i] = 0
  /\ stdout = <<ErrorResult("energy")>>

\* C5: no run ends with the diagnostic log still open.
C5_LogClosedAtExit == pc = "done" => ~log_open

\* C6: with no path argument the run prints exactly the missing-argument
\* error, exits with code 1 and runs no step of the pipeline.
C6_MissingArgument ==
  argc < 2 =>
    /\ pc \in {"main", "done"}
    /\ sr = Unset /\ duration = Unset /\ tempo = Unset
    /\ onset_env = <<>> /\ window_size = Unset /\ highlight_duration = Unset
    /\ pc = "done" =>
         /\ stdout = <<[error |-> "No audio file provided"]>>
         /\ exit_code = 1

C6_Witness ==
  /\ argc < 2
  /\ pc = "done"
  /\ stdout = <<[error |-> "No audio file provided"]>>

\* What a run prints: the Highlight Results as they are, errors by shape.
Printed == [i \in DOMAIN stdout |->
              IF IsHighlight(stdout[i]) THEN stdout[i] ELSE ErrorResult("raised")]

\* Whether selection fails on a waveform, from its onset curve and rate alone.
SelectionFails(w, rate) ==
  \/ WindowSize(rate) = 0
  \/ \A i \in DOMAIN w.onset : w.onset[i] = 0

\* The Highlight Result of a waveform, from its onset curve, length and rate alone.
ExpectedHighlight(w, rate) ==
  LET sums  == ConvolveValid(w.onset, Ones(WindowSize(rate)))
      peak  == CHOOSE k \in DOMAIN sums :
                 /\ \A j \in DOMAIN sums : sums[j] <= sums[k]
                 /\ \A j \in 1..(k - 1) : sums[j] < sums[k]
      raw   == (peak - 1) * hop_length
      lim   == HIGHLIGHT_SECONDS * rate
      start == IF raw > w.len - lim THEN Max(0, w.len - lim) ELSE raw
      ratio == [num |-> sums[peak] * Len(sums), den |-> SumSeq(sums)]
  IN  HighlightResult(start, Min(lim, w.len - start), ratio)

ExpectedPrinted(w, rate, closeRaised) ==
  IF SelectionFails(w, rate) THEN << ErrorResult("raised") >>
  ELSE IF closeRaised THEN << ExpectedHighlight(w, rate), ErrorResult("raised") >>
  ELSE << ExpectedHighlight(w, rate) >>

ExpectedExit(w, rate, closeRaised) ==
  IF SelectionFails(w, rate) \/ closeRaised THEN 1 ELSE 0

C8_BoundaryPolicy ==
  [][pc = "boundary" =>
       /\ start_time' = IF start_time > duration - Limit
                          THEN (IF duration - Limit > 0 THEN duration - Limit ELSE 0)
                          ELSE start_time
       /\ highlight_duration' = IF Limit <= duration - start_time'
                                  THEN Limit ELSE duration - start_time'
       /\ highlight_duration' <= Limit]_vars

\* A track longer than 20 seconds whose peak lies in its last 20 seconds.
C8_Witness ==
  /\ pc = "print"
  /\ duration > Limit
  /\ FramesToTime(peak_idx) > duration - Limit
  /\ start_time = duration - Limit
  /\ highlight_duration = Limit

\* C9: peak_idx is the lowest index of the maximum of the window energy
\* curve, and the raw start is that window's time.
C9_FirstMaximum ==
  pc \in {"energy", "boundary"} =>
    /\ peak_idx + 1 \in DOMAIN onset_sum
    /\ \A j \in DOMAIN onset_sum : onset_sum[j] <= onset_sum[peak_idx + 1]
    /\ \A j \in 1..peak_idx : onset_sum[j] < onset_sum[peak_idx + 1]
    /\ start_time = peak_idx * hop_length

\* Two windows share the maximum and the earlier one, not the first, is chosen.
C9_Witness ==
  /\ pc = "energy"
  /\ Len(onset_env) >= window_size
  /\ peak_idx > 0
  /\ \E j \in DOMAIN onset_sum :
       j > peak_idx + 1 /\ onset_sum[j] = onset_sum[peak_idx + 1]

====
